---------------------------- MODULE Spec2Model ----------------------------
(***************************************************************************)
(* Model of src/main.py: APIStressTester (make_request, _log_result, run)  *)
(* and run_stress_test.                                                    *)
(*                                                                         *)
(* run() is one asyncio coroutine and every make_request call is one       *)
(* asyncio task.  asyncio schedules cooperatively: a coroutine runs        *)
(* without interruption from one await to the next, so the model has one   *)
(* action per stretch of code between two awaits.  The awaits are          *)
(* client.request (line 76) in make_request and asyncio.gather (lines 141  *)
(* and 146) in run.                                                        *)
(***************************************************************************)
EXTENDS Integers, Sequences, FiniteSets, TLC

\* ------------------------------------------------------------------ bounds

\* Largest total_requests tried.
MaxTotal == 3

\* Largest concurrent_requests tried.
MaxConc == 2

\* Request ids the runs of the model can hand out (request_id = i + 1, line 136).
Ids == 1..MaxTotal

\* total_requests values tried.  range(n) is empty for n <= 0 (line 135).
TotalRequests == 0..MaxTotal

\* concurrent_requests values tried.  __init__ (line 45) stores the value as
\* given, so 0 and a negative value are inputs of the program too.
ConcurrentRequests == (0 - 1)..MaxConc

\* ------------------------------------------------------- transport outcomes

\* Python's None (status_code on the failure path, line 105).
None == -1

\* Status codes a completed exchange may carry: the lower edge of [200, 300),
\* the first code above it and a server error.
StatusCodes == {200, 300, 500}

\* Response bodies: one that is valid JSON, one that is plain text, one that
\* is neither JSON nor decodable as text (a Content-Type charset naming a
\* codec that is not a text encoding makes response.text raise), and one that
\* is valid JSON nested so deep that response.json() still parses it and
\* json.dumps cannot write it back.
JsonBody == "[1]"
TextBody == "plain text"
UndecodableBody == "undecodable"
DeepJsonBody == "[[[...]]]"
Bodies == {JsonBody, TextBody, UndecodableBody, DeepJsonBody}

\* The responses tried: every body with status 200, the JSON body with every
\* status code, and the undecodable body with a server error.
Responses ==
    {r \in [status : StatusCodes, body : Bodies] :
        \/ r.status = 200
        \/ r.body = JsonBody
        \/ r.status = 500 /\ r.body = UndecodableBody}

\* str(e) of the exceptions client.request may raise (a timeout, a refused
\* connection, a protocol error: the handler of line 100 treats all alike).
TransportErrors == {"ReadTimeout"}

\* len(response.content), line 91.
content_length(body) ==
    CASE body = JsonBody -> 3
      [] body = TextBody -> 10
      [] body = UndecodableBody -> 11
      [] body = DeepJsonBody -> 19988

\* response.json(), line 96: the parsed value, or a raise.
json_raises(body) == body \notin {JsonBody, DeepJsonBody}
response_json(body) ==
    IF body = DeepJsonBody THEN "list nested 9994 deep" ELSE "list of 1"

\* response.text, line 98: the decoded text, or a raise.
text_raises(body) == body = UndecodableBody
response_text(body) == body

\* ----------------------------------------------------------- make_request

\* dict.update (lines 86, 104): the keys of u are set, the others kept.
update(d, u) == u @@ d

\* 200 <= response.status_code < 300 (line 89).
success(status_code) == 200 <= status_code /\ status_code < 300

\* datetime.now().isoformat() (line 67): the timestamps of this run, which
\* are later than every timestamp an earlier run wrote.
Now == "now"
Earlier == "earlier"

\* The dict of lines 65-72.  The echoed url, method, headers and params are
\* the same for every request of a run and are left out.
new_result(request_id) == [request_id |-> request_id, timestamp |-> Now]

\* Lines 86-92: the fields recorded for a completed exchange.
response_fields(status_code, body) ==
    [status_code |-> status_code,
     success |-> success(status_code),
     response_headers |-> "headers",
     content_length |-> content_length(body)]

\* Lines 104-109: the fields recorded when an exception reaches the handler.
error_fields(error) ==
    [status_code |-> None, success |-> FALSE, error |-> error]

\* Lines 64-98 for a call whose client.request returned: the result dict built
\* for a response with this status and body.  A raise of response.json() is
\* caught by the bare except of line 97; a raise of response.text (line 98)
\* is inside the try of line 74 and reaches the handler of line 100 after
\* lines 86-92 have already updated the dict.
result_of_response(request_id, status_code, body) ==
    LET recorded == update(new_result(request_id),
                           response_fields(status_code, body))
    IN  IF ~json_raises(body)
        THEN update(recorded, [response_body |-> response_json(body)])
        ELSE IF ~text_raises(body)
        THEN update(recorded, [response_body |-> response_text(body)])
        ELSE update(recorded, error_fields("text decode error"))

\* Lines 100-109 as a variant without the handler would behave: the exception
\* of client.request leaves make_request.
exception_escapes(request_id, error) ==
    [raised |-> TRUE, result |-> new_result(request_id)]

\* Lines 64-81, 100-109 for a call whose client.request raised: the
\* exception is caught and recorded; make_request goes on to line 111.
result_of_exception(request_id, error) ==
    [raised |-> FALSE,
     result |-> update(new_result(request_id), error_fields(error))]

\* ------------------------------------------------------------ _log_result

\* json.dumps(result) + '\n' (line 122): one line per result, a JSON object
\* with the keys of the dict in which None is written as null.
log_line(result) ==
    [key \in DOMAIN result |->
        IF key = "status_code" /\ result[key] = None
        THEN "null"
        ELSE result[key]]

\* The file is the sequence of its physical lines.  A line is the pieces
\* written onto it, run together, with or without a newline at its end; a
\* piece is the text json.dumps gave for one result, entire or cut short.
piece(record, entire) == [record |-> record, entire |-> entire]
file_line(pieces, newline) == [pieces |-> pieces, newline |-> newline]

\* The file ends in a line that has no newline yet.
open_ended(file) == Len(file) > 0 /\ ~file[Len(file)].newline

\* Bytes written in mode 'a' go to the end of the file: they start a new line
\* unless the file ends in a line without newline, which they continue.
write(file, record, entire, newline) ==
    IF open_ended(file)
    THEN [file EXCEPT ![Len(file)] =
              file_line(Append(@.pieces, piece(record, entire)), newline)]
    ELSE Append(file, file_line(<<piece(record, entire)>>, newline))

\* What open() (line 121) can do: it opens the file or raises OSError
\* (permission denied, no such directory); for a file name that holds a NUL
\* byte it raises ValueError.
OpenOutcomes(file_name) ==
    IF file_name = "nul_byte"
    THEN {"open_raises_value"}
    ELSE {"opened", "open_raises"}

\* json.dumps(result) (line 122) walks the dict in the order of its keys,
\* headers and params before response_body, and raises for the first value it
\* cannot write: TypeError or ValueError when self.headers or self.params hold
\* a value JSON cannot express (a date, bytes; a circular reference),
\* RecursionError when response_body is nested too deep.
dumps_raises(error, result) ==
    CASE error # "none" -> error
      [] /\ "response_body" \in DOMAIN result
         /\ result.response_body = response_json(DeepJsonBody) ->
             "RecursionError"
      [] OTHER -> "none"

\* What line 122 can do once the file is open: json.dumps raises; otherwise
\* the line is written, or the write, the flush or the close at the end of
\* the with block raises OSError with some prefix of the line in the file:
\* nothing, a piece of the record, the record without its newline, or the
\* whole line.
WriteOutcomes(error, result) ==
    CASE dumps_raises(error, result) = "TypeError" -> {"dumps_raises_type"}
      [] dumps_raises(error, result) = "ValueError" -> {"dumps_raises_value"}
      [] dumps_raises(error, result) = "RecursionError" ->
             {"dumps_raises_recursion"}
      [] OTHER -> {"ok", "write_raises", "write_raises_partial",
                   "write_raises_unterminated", "write_raises_written"}

\* The exception _log_result raises for an outcome of the sink.
sink_exception(sink) ==
    CASE sink \in {"opened", "ok"} -> "none"
      [] sink = "dumps_raises_type" -> "TypeError"
      [] sink \in {"dumps_raises_value", "open_raises_value"} -> "ValueError"
      [] sink = "dumps_raises_recursion" -> "RecursionError"
      [] sink \in {"open_raises", "write_raises", "write_raises_partial",
                   "write_raises_unterminated", "write_raises_written"} ->
             "OSError"

\* What an outcome of the sink puts at the end of the file.
written(file, record, sink) ==
    CASE sink \in {"ok", "write_raises_written"} ->
             write(file, record, TRUE, TRUE)
      [] sink = "write_raises_unterminated" -> write(file, record, TRUE, FALSE)
      [] sink = "write_raises_partial" -> write(file, record, FALSE, FALSE)
      [] OTHER -> file

\* Line 121 as a variant that wrote at the start of the file would behave.
log_result_prepends(file, result, sink) ==
    [raised |-> sink_exception(sink),
     file |-> IF written(<<>>, log_line(result), sink) = <<>>
              THEN file
              ELSE written(<<>>, log_line(result), sink) \o file]

\* Lines 121-122: the file is opened in mode 'a' and the line is written at
\* its end; when open() or json.dumps raises the file is left as it was, and
\* when the write raises the file has grown by what had been written.
log_result(file, result, sink) ==
    [raised |-> sink_exception(sink),
     file |-> written(file, log_line(result), sink)]

\* The line an earlier run wrote for a request that got a response.
earlier_line(request_id) ==
    file_line(<<piece([log_line(result_of_response(request_id, 200, JsonBody))
                          EXCEPT !.timestamp = Earlier],
                      TRUE)>>,
              TRUE)

\* The piece an earlier run left of a line when its write failed partway.
earlier_fragment(request_id) ==
    file_line(<<piece([log_line(result_of_response(request_id, 200, JsonBody))
                          EXCEPT !.timestamp = Earlier],
                      FALSE)>>,
              FALSE)

\* What the log file may hold before the program starts: nothing; the line of
\* an earlier run of one request; the lines of an earlier run of three
\* requests in batches of two, in the order 2, 1, 3 of their completion; or
\* the line of request 1 and a piece of the line of request 2 of an earlier
\* run that failed in its write.
PriorLogs ==
    {<<>>,
     <<earlier_line(1)>>,
     <<earlier_line(2), earlier_line(1), earlier_line(3)>>,
     <<earlier_line(1), earlier_fragment(2)>>}

\* ------------------------------------------------------------------- state

VARIABLES
    total_requests,       \* self.total_requests (line 44)
    concurrent_requests,  \* self.concurrent_requests (line 45)
    results,              \* self.results (line 51)
    log,                  \* the lines of the file self.log_file names
    entry,                \* how run() was started: "run_stress_test" or "run"
    loop,                 \* the asyncio event loop: "running" or "closed"
    client,               \* the httpx.AsyncClient of line 133: "none", "open", "closed"
    pc,                   \* where run() stands
    i,                    \* how many iterations of the for loop of line 135 have run
    tasks,                \* the local list tasks of run(): request ids
    batchNo,              \* 1 + the number of gathers of line 141 that have returned
    batch,                \* request id -> batchNo when its task was created
    tstate,               \* request id -> state of its make_request task
    ret,                  \* request id -> the dict its make_request returned
    outcome,              \* request id -> what the transport and the sink did for it
    exc,                  \* the exception run() raised to its caller, if any
    dumps_error,          \* what json.dumps raises for self.headers and self.params
    log_file,             \* self.log_file (line 49): a usable name or not
    failure               \* the exception of the first task that raised, if any

vars == <<total_requests, concurrent_requests, results, log, entry, loop,
          client, pc, i, tasks, batchNo, batch, tstate, ret, outcome,
          exc, dumps_error, log_file, failure>>

config ==
    <<total_requests, concurrent_requests, results, entry, dumps_error,
      log_file>>

\* The state after APIStressTester.__init__ (lines 43-51), before either entry
\* point has been called.
Init ==
    /\ total_requests \in TotalRequests
    /\ concurrent_requests \in ConcurrentRequests
    /\ results = <<>>
    /\ log \in PriorLogs
    /\ entry = "none"
    /\ loop = "running"
    /\ client = "none"
    /\ pc = "init"
    /\ i = 0
    /\ tasks = <<>>
    /\ batchNo = 1
    /\ batch = [id \in {} |-> 0]
    /\ tstate = [id \in Ids |-> "none"]
    /\ ret = [id \in {} |-> 0]
    /\ outcome = [id \in {} |-> 0]
    /\ exc = "none"
    /\ dumps_error \in {"none", "TypeError", "ValueError"}
    /\ log_file \in {"name", "nul_byte"}
    /\ failure = "none"

\* ---------------------------------------------------------------- helpers

\* A task that has reached client.request (line 76).
Started(id) ==
    tstate[id] \in {"requesting", "appending", "done", "raised", "cancelled"}

\* Tasks that have been handed to the transport and have not finished.
InFlight == {id \in Ids : tstate[id] \in {"requesting", "appending"}}

\* Tasks inside the with block of _log_result (lines 121-122): the file is
\* open and the line not yet flushed.
Appending == {id \in Ids : tstate[id] = "appending"}

\* Lines 111-122 hold no await: the event loop runs nothing else, neither a
\* task nor run(), from the open() of line 121 until the with block is left.
thread_free(ts) == \A id \in Ids : ts[id] # "appending"

\* run() is suspended in an await (or has ended) and the event loop is free to
\* run the tasks.
TasksMayRun ==
    /\ loop = "running"
    /\ pc \in {"gather", "gather_rest", "closing", "failed"}
    /\ thread_free(tstate)

\* asyncio.gather(*tasks) with return_exceptions=True, as a variant would
\* await it: a task's exception is collected, never raised.
gather_collects(ts) ==
    IF \A k \in 1..Len(ts) : tstate[ts[k]] \in {"done", "raised"}
    THEN "return"
    ELSE "pending"

\* asyncio.gather(*tasks) as a variant that resumes the caller on the first
\* finished task would behave.
gather_first(ts) ==
    IF \E k \in 1..Len(ts) : tstate[ts[k]] = "raised" THEN "raise"
    ELSE IF \E k \in 1..Len(ts) : tstate[ts[k]] = "done" THEN "return"
    ELSE "pending"

\* asyncio.gather(*tasks) as a variant that never delivered a task's exception
\* would behave: run() stays suspended once a task has raised.
gather_ignores_raise(ts) ==
    IF \A k \in 1..Len(ts) : tstate[ts[k]] = "done" THEN "return"
    ELSE "pending"

\* asyncio.gather(*tasks) (lines 141, 146): it raises to the awaiting run() as
\* soon as one task has raised, returns once every task has returned, and
\* keeps run() suspended otherwise.  It does not cancel the other tasks.
gather(ts) ==
    IF \E k \in 1..Len(ts) : tstate[ts[k]] = "raised" THEN "raise"
    ELSE IF \A k \in 1..Len(ts) : tstate[ts[k]] = "done" THEN "return"
    ELSE "pending"

\* ------------------------------------------------------------ entry points

\* run_stress_test called by code that runs in an event loop (lines 171-190):
\* the log file is emptied (line 175), then asyncio.run (line 190) raises
\* RuntimeError and starts nothing.  The caller is code of the loop that is
\* running: it calls before run() has been started, or while a run() that was
\* awaited directly is suspended or has ended.  No other code runs while run()
\* or a task holds the thread, and the loop asyncio.run itself started runs
\* nothing but run() and its tasks.
RunStressTestRefused ==
    /\ entry \in {"none", "run"}
    /\ loop = "running"
    /\ pc \in {"init", "gather", "gather_rest", "closing", "done", "failed"}
    /\ thread_free(tstate)
    /\ log_file = "name"
    /\ log' = <<>>
    /\ UNCHANGED <<total_requests, concurrent_requests, results, entry, loop,
                   client, pc, i, tasks, batchNo, batch, tstate, ret,
                   outcome, exc, dumps_error, log_file, failure>>

\* run_stress_test (lines 171-190): the log file is opened in mode 'w', which
\* empties it, and asyncio.run starts run(), which opens the client (line 133)
\* and reaches the for loop.  For a file name open() refuses, line 175 raises
\* and nothing has happened.
RunStressTest ==
    /\ pc = "init"
    /\ log_file = "name"
    /\ entry' = "run_stress_test"
    /\ log' = <<>>
    /\ client' = "open"
    /\ pc' = "loop"
    /\ UNCHANGED <<total_requests, concurrent_requests, results, loop, i,
                   tasks, batchNo, batch, tstate, ret, outcome, exc,
                   dumps_error, log_file, failure>>

\* A caller awaits APIStressTester.run() itself (lines 124-134): the client is
\* opened and the for loop reached; the log file is left as it is.
RunDirect ==
    /\ pc = "init"
    /\ entry' = "run"
    /\ client' = "open"
    /\ pc' = "loop"
    /\ UNCHANGED <<total_requests, concurrent_requests, results, log, loop,
                   i, tasks, batchNo, batch, tstate, ret, outcome, exc,
                   dumps_error, log_file, failure>>

\* ------------------------------------------------------------------ run()

\* len(tasks) >= self.concurrent_requests (line 140) as an off-by-one variant
\* would test it.
batch_full_strict(ts) == Len(ts) > concurrent_requests

\* len(tasks) >= self.concurrent_requests (line 140).
batch_full(ts) == Len(ts) >= concurrent_requests

\* One iteration of the for loop (lines 135-140): the task for request i + 1
\* is created and appended; if the list has reached concurrent_requests, run()
\* awaits the gather of line 141.
CreateTask ==
    /\ pc = "loop"
    /\ i < total_requests
    /\ LET id == i + 1
           ts == Append(tasks, id)
       IN  /\ tstate' = [tstate EXCEPT ![id] = "created"]
           /\ batch' = (id :> batchNo) @@ batch
           /\ tasks' = ts
           /\ pc' = IF batch_full(ts) THEN "gather" ELSE "loop"
    /\ i' = i + 1
    /\ UNCHANGED <<config, log, loop, client, batchNo, ret, outcome, exc,
                   failure>>

\* Line 141 returns: every task of the list has returned; tasks = [] (line
\* 142) and the loop goes on.
GatherReturns ==
    /\ pc = "gather"
    /\ loop = "running"
    /\ gather(tasks) = "return"
    /\ tasks' = <<>>
    /\ batchNo' = batchNo + 1
    /\ pc' = "loop"
    /\ UNCHANGED <<config, log, loop, client, i, batch, tstate, ret,
                   outcome, exc, failure>>

\* The for loop is exhausted (line 135) and tasks is non-empty (line 145):
\* run() awaits the gather of line 146.
AwaitRemaining ==
    /\ pc = "loop"
    /\ i >= total_requests
    /\ tasks # <<>>
    /\ pc' = "gather_rest"
    /\ UNCHANGED <<config, log, loop, client, i, tasks, batchNo, batch,
                   tstate, ret, outcome, exc, failure>>

\* How run() ends once the async with block of line 133 has been left: by
\* return, or by the exception of the task that failed first.
run_ends ==
    [pc |-> IF failure = "none" THEN "done" ELSE "failed", exc |-> failure]

\* Whether the exit of the async with block (line 133) can suspend run():
\* closing the client awaits the closing of each connection its pool holds,
\* and there is none before a request has been started.
ExitYields == IF \E id \in Ids : Started(id) THEN BOOLEAN ELSE {FALSE}

\* The async with block of line 133 is left: the client is closed; run()
\* either ends in the same step or is suspended with the client closed.
ExitAsyncWith(yields) ==
    /\ client' = "closed"
    /\ pc' = IF yields THEN "closing" ELSE run_ends.pc
    /\ exc' = IF yields THEN exc ELSE run_ends.exc

\* The for loop is exhausted and tasks is empty (line 145): the async with
\* block ends, the client is closed and run() returns None.
ReturnNoRemaining ==
    /\ pc = "loop"
    /\ i >= total_requests
    /\ tasks = <<>>
    /\ \E yields \in ExitYields : ExitAsyncWith(yields)
    /\ UNCHANGED <<config, log, loop, i, tasks, batchNo, batch, tstate, ret,
                   outcome, failure>>

\* Line 146 returns: the async with block ends, the client is closed and
\* run() returns None.
RemainingReturns ==
    /\ pc = "gather_rest"
    /\ loop = "running"
    /\ gather(tasks) = "return"
    /\ \E yields \in ExitYields : ExitAsyncWith(yields)
    /\ UNCHANGED <<config, log, loop, i, tasks, batchNo, batch, tstate, ret,
                   outcome, failure>>

\* Line 141 or 146 raises the exception of the task that failed first:
\* nothing in run() catches it, the async with block closes the client and
\* run() raises it to its caller.
GatherRaises ==
    /\ pc \in {"gather", "gather_rest"}
    /\ loop = "running"
    /\ gather(tasks) = "raise"
    /\ thread_free(tstate)
    /\ \E yields \in ExitYields : ExitAsyncWith(yields)
    /\ UNCHANGED <<config, log, loop, i, tasks, batchNo, batch, tstate, ret,
                   outcome, failure>>

\* The closing of the client is over (line 133): run() is resumed and
\* returns, or raises the exception that left the block.
RunEnds ==
    /\ pc = "closing"
    /\ loop = "running"
    /\ thread_free(tstate)
    /\ pc' = run_ends.pc
    /\ exc' = run_ends.exc
    /\ UNCHANGED <<config, log, loop, client, i, tasks, batchNo, batch,
                   tstate, ret, outcome, failure>>

\* asyncio.run (line 190) after run() has returned or raised: the tasks still
\* pending are cancelled and the event loop is closed.
AsyncioRunEnds ==
    /\ entry = "run_stress_test"
    /\ pc \in {"done", "failed"}
    /\ loop = "running"
    /\ thread_free(tstate)
    /\ loop' = "closed"
    /\ tstate' = [id \in Ids |->
                    CASE tstate[id] = "created" -> "never_ran"
                      [] tstate[id] = "requesting" -> "cancelled"
                      [] OTHER -> tstate[id]]
    /\ UNCHANGED <<config, log, client, pc, i, tasks, batchNo, batch, ret,
                   outcome, exc, failure>>

\* ----------------------------------------------------------- make_request

\* The event loop runs a created task for the first time, in creation order:
\* lines 64-76, up to the await of client.request.
TaskStarts(id) ==
    /\ TasksMayRun
    /\ tstate[id] = "created"
    /\ \A j \in Ids : j < id => tstate[j] # "created"
    /\ tstate' = [tstate EXCEPT ![id] = "requesting"]
    /\ UNCHANGED <<config, log, loop, client, pc, i, tasks, batchNo, batch,
                   ret, outcome, exc, failure>>

\* A task ends by an exception: asyncio.gather keeps the exception of the
\* first task that raised.
TaskRaises(id, exception) ==
    /\ tstate' = [tstate EXCEPT ![id] = "raised"]
    /\ failure' = IF failure = "none" THEN exception ELSE failure

\* Line 111 up to the open() of line 121: the result is handed to
\* _log_result, which opens the file; an exception of open() is not caught
\* and ends the task.
EnterAppend(id, result, sink) ==
    /\ IF log_result(log, result, sink).raised # "none"
       THEN TaskRaises(id, log_result(log, result, sink).raised)
       ELSE /\ tstate' = [tstate EXCEPT ![id] = "appending"]
            /\ failure' = failure
    /\ UNCHANGED <<log, ret>>

\* The dict make_request has built for a request whose client.request has
\* returned or raised (lines 82-109).
pending_result(id) ==
    IF outcome[id].kind = "response"
    THEN result_of_response(id, outcome[id].status, outcome[id].body)
    ELSE result_of_exception(id, outcome[id].error).result

\* Line 122 and line 112: the line is written, the with block is left, which
\* flushes the line to the file, and make_request returns the result; an
\* exception of json.dumps, of the write or of the flush is not caught and
\* ends the task.
LeaveAppend(id) ==
    /\ loop = "running"
    /\ tstate[id] = "appending"
    /\ \E sink \in WriteOutcomes(dumps_error, pending_result(id)) :
           LET logged == log_result(log, pending_result(id), sink)
           IN  /\ outcome' = [outcome EXCEPT ![id].sink = sink]
               /\ log' = logged.file
               /\ IF logged.raised # "none"
                  THEN /\ TaskRaises(id, logged.raised)
                       /\ ret' = ret
                  ELSE /\ tstate' = [tstate EXCEPT ![id] = "done"]
                       /\ ret' = (id :> pending_result(id)) @@ ret
                       /\ failure' = failure
    /\ UNCHANGED <<config, loop, client, pc, i, tasks, batchNo, batch, exc>>

\* client.request returns a response (lines 82-99, 111, 121).
RequestReturns(id) ==
    /\ TasksMayRun
    /\ tstate[id] = "requesting"
    /\ \E response \in Responses, sink \in OpenOutcomes(log_file) :
           /\ outcome' = (id :> [kind |-> "response",
                                 status |-> response.status,
                                 body |-> response.body,
                                 sink |-> sink]) @@ outcome
           /\ EnterAppend(id,
                          result_of_response(id, response.status,
                                             response.body),
                          sink)
    /\ UNCHANGED <<config, loop, client, pc, i, tasks, batchNo, batch, exc>>

\* client.request raises (lines 100-111, 121).
RequestRaises(id) ==
    /\ TasksMayRun
    /\ tstate[id] = "requesting"
    /\ \E error \in TransportErrors, sink \in OpenOutcomes(log_file) :
           LET caught == result_of_exception(id, error)
           IN  /\ outcome' = (id :> [kind |-> "exception", error |-> error,
                                     sink |-> sink]) @@ outcome
               /\ IF caught.raised
                  THEN /\ TaskRaises(id, error)
                       /\ UNCHANGED <<log, ret>>
                  ELSE EnterAppend(id, caught.result, sink)
    /\ UNCHANGED <<config, loop, client, pc, i, tasks, batchNo, batch, exc>>

Next ==
    \/ RunStressTestRefused
    \/ RunStressTest
    \/ RunDirect
    \/ CreateTask
    \/ GatherReturns
    \/ AwaitRemaining
    \/ ReturnNoRemaining
    \/ RemainingReturns
    \/ GatherRaises
    \/ RunEnds
    \/ AsyncioRunEnds
    \/ \E id \in Ids : TaskStarts(id)
    \/ \E id \in Ids : RequestReturns(id)
    \/ \E id \in Ids : RequestRaises(id)
    \/ \E id \in Ids : LeaveAppend(id)

Spec == Init /\ [][Next]_vars

\* What the scheduling of the code gives while the event loop runs: an entry
\* point is called (line 215); run() goes on from one statement to the next
\* and is resumed once the gather or the closing it awaits is over;
\* asyncio.run (line 190) ends once run() has ended; a created task is
\* started; a task that holds the thread goes on to the end of its append.
\* Nothing is said of the transport: when a client.request returns is not up
\* to the code.  Every step but the calling of an entry point is one of a
\* running loop; for a run() awaited directly the loop is its caller's, and
\* that it goes on running the tasks is what C17 assumes of the scheduling.
Fairness ==
    /\ WF_vars(RunStressTest \/ RunDirect)
    /\ WF_vars(CreateTask)
    /\ WF_vars(GatherReturns)
    /\ WF_vars(AwaitRemaining)
    /\ WF_vars(ReturnNoRemaining)
    /\ WF_vars(RemainingReturns)
    /\ WF_vars(GatherRaises)
    /\ WF_vars(RunEnds)
    /\ WF_vars(AsyncioRunEnds)
    /\ \A id \in Ids : WF_vars(TaskStarts(id))
    /\ \A id \in Ids : WF_vars(LeaveAppend(id))

FairSpec == Spec /\ Fairness

\* ------------------------------------------------------------------ claims

\* A key of the result dict holds a value other than None.
StatusPresent(r) == r.status_code # None
ErrorPresent(r) == "error" \in DOMAIN r
SuccessOnlyFields == {"response_headers", "content_length", "response_body"}

\* A line of the log that a reader parses as the record of one request: it
\* is one entire record and nothing else (a last line without newline is
\* still read as a line).
WholeLine(l) == Len(l.pieces) = 1 /\ l.pieces[1].entire

\* The request ids a reader finds on the lines of the log, in line order,
\* whatever run wrote them; a line that cannot be parsed counts as 0.
LineIds ==
    [k \in 1..Len(log) |->
        IF WholeLine(log[k]) THEN log[k].pieces[1].record.request_id ELSE 0]

\* The lines of the log that are the record this run wrote for request id.
LinesOf(id) ==
    {k \in 1..Len(log) :
        /\ WholeLine(log[k])
        /\ log[k].pieces[1].record.request_id = id
        /\ log[k].pieces[1].record.timestamp = Now}

\* The pieces of a file in the order in which they stand in it.
RECURSIVE pieces_of(_)
pieces_of(file) ==
    IF Len(file) = 0
    THEN <<>>
    ELSE pieces_of(SubSeq(file, 1, Len(file) - 1)) \o file[Len(file)].pieces

\* Everything the log holds, in file order.
Written == pieces_of(log)

\* s is the beginning of t.
IsPrefix(s, t) == Len(s) <= Len(t) /\ SubSeq(t, 1, Len(s)) = s

\* C1: when run() completes normally with concurrency >= 1, self.results is
\* the sequence of the results of requests 1..total_requests in that order.
C1_ResultsInDispatchOrder ==
    (pc = "done" /\ concurrent_requests >= 1) =>
        /\ Len(results) = total_requests
        /\ \A k \in 1..Len(results) : results[k] = ret[k]

\* C2: in every state the number of make_request tasks started and not yet
\* finished is at most concurrent_requests.
\* (Stated for concurrent_requests >= 0: no count is at most a negative number.)
C2_InFlightWithinConcurrency ==
    concurrent_requests >= 0 =>
        Cardinality(InFlight) <= concurrent_requests

\* C3: no request of a later batch has started while a request of an earlier
\* batch has not completed (returned its result).
C3_BatchesSequential ==
    \A a \in DOMAIN batch, b \in DOMAIN batch :
        (batch[a] < batch[b] /\ Started(b)) => tstate[a] = "done"

\* C3 witness: a request of a second batch is in flight after a first batch
\* of two requests.
C3_Witness ==
    \E a \in DOMAIN batch, b \in DOMAIN batch, c \in DOMAIN batch :
        /\ a # b
        /\ batch[a] = batch[b]
        /\ batch[b] < batch[c]
        /\ tstate[c] = "requesting"

\* C4: after a run that completes normally the log holds exactly
\* total_requests lines, one for each request id 1..total_requests.
\* (Stated for a valid configuration that makes at least one request.)
C4_LogHoldsOneLinePerRequest ==
    (pc = "done" /\ concurrent_requests >= 1 /\ total_requests >= 1) =>
        /\ Len(log) = total_requests
        /\ \A id \in 1..total_requests :
               /\ Cardinality(LinesOf(id)) = 1
               /\ Cardinality({k \in 1..Len(log) : LineIds[k] = id}) = 1

\* C5: with concurrent_requests <= 0 the run is rejected: no task is ever
\* started, nothing is appended to the log and run() does not complete
\* normally.  (Stated for runs asked to make at least one request.)
C5_InvalidConcurrencyRejected ==
    (concurrent_requests <= 0 /\ total_requests >= 1) =>
        /\ \A id \in Ids : ~Started(id)
        /\ DOMAIN outcome = {}
        /\ pc # "done"

\* C6: with total_requests = 0, run() completes with empty results, no task
\* and no line in the log.  (Stated for a valid concurrent_requests.)
C6_ZeroRequestsLeaveNothing ==
    (pc = "done" /\ total_requests = 0 /\ concurrent_requests >= 1) =>
        /\ results = <<>>
        /\ \A id \in Ids : tstate[id] = "none"
        /\ log = <<>>

\* C7: every result make_request returned has exactly one of status_code and
\* error, and holds the success-only fields only when it holds no error.
\* (Stated for a valid concurrent_requests.)
C7_StatusXorError ==
    concurrent_requests >= 1 =>
        \A id \in DOMAIN ret :
            /\ StatusPresent(ret[id]) # ErrorPresent(ret[id])
            /\ ErrorPresent(ret[id]) =>
                   DOMAIN ret[id] \cap SuccessOnlyFields = {}

\* C8: for every result, success is true iff status_code is present and in
\* [200, 300); a response with status 500 yields success false, status_code
\* 500 and no error; a transport failure yields success false.
\* (Stated for a valid concurrent_requests.)
C8_SuccessIffStatus2xx ==
    concurrent_requests >= 1 =>
        \A id \in DOMAIN ret :
            /\ ret[id].success =
                   (/\ StatusPresent(ret[id])
                    /\ 200 <= ret[id].status_code
                    /\ ret[id].status_code < 300)
            /\ (outcome[id].kind = "response" /\ outcome[id].status = 500) =>
                   /\ ret[id].success = FALSE
                   /\ ret[id].status_code = 500
                   /\ ~ErrorPresent(ret[id])
            /\ outcome[id].kind = "exception" => ret[id].success = FALSE

\* The batch a request belongs to when batches are cut from the ids by
\* concurrent_requests alone (batches of one for a value below 1).
BatchOf(id) ==
    IF concurrent_requests >= 1
    THEN ((id - 1) \div concurrent_requests) + 1
    ELSE id

\* Requests whose append to the log raised.
SinkFailed ==
    {id \in DOMAIN outcome : sink_exception(outcome[id].sink) # "none"}

\* C9: transport failures and non-2xx responses do not change scheduling:
\* every task is created in the batch its id alone determines, a request whose
\* transport call raised returns a result with error and without status_code,
\* run() does not fail unless an append to the log failed, and a run that
\* completes has completed every request.
C9_OutcomesDoNotChangeScheduling ==
    /\ \A id \in DOMAIN batch : batch[id] = BatchOf(id)
    /\ \A id \in DOMAIN ret :
           outcome[id].kind = "exception" =>
               ErrorPresent(ret[id]) /\ ~StatusPresent(ret[id])
    /\ SinkFailed = {} =>
           /\ pc # "failed"
           /\ DOMAIN ret = DOMAIN outcome \ Appending
    /\ pc = "done" => \A id \in 1..total_requests : tstate[id] = "done"

\* C9 witness: a run of two batches has completed in which one batch held a
\* request whose transport call raised and one answered with status 500.
C9_Witness ==
    /\ pc = "done"
    /\ \E a \in DOMAIN ret, b \in DOMAIN ret, c \in DOMAIN ret :
           /\ batch[a] = batch[b]
           /\ batch[c] # batch[a]
           /\ outcome[a].kind = "exception"
           /\ outcome[b].kind = "response"
           /\ outcome[b].status = 500

\* C10: once an append to the log has raised, run() cannot return normally:
\* it is suspended in a gather that raises, is closing the client on its way
\* out, or has raised to its caller the exception of the request whose append
\* failed first; the failed request returned no result, and no task of a later
\* batch exists.
C10_SinkFailureIsFatal ==
    SinkFailed # {} =>
        /\ pc \in {"gather", "gather_rest", "closing", "failed"}
        /\ pc \in {"gather", "gather_rest"} =>
               (loop = "running" /\ gather(tasks) = "raise")
        /\ failure \in {sink_exception(outcome[f].sink) : f \in SinkFailed}
        /\ pc = "failed" => exc = failure
        /\ \A f \in SinkFailed :
               /\ tstate[f] = "raised"
               /\ f \notin DOMAIN ret
               /\ \A j \in DOMAIN batch : batch[j] <= batch[f]

\* C10 witness: run() has raised OSError with requests left undispatched,
\* while a sibling of the failed request has completed.
C10_Witness ==
    /\ pc = "failed"
    /\ exc = "OSError"
    /\ loop = "closed"
    /\ i < total_requests
    /\ \E f \in SinkFailed, d \in DOMAIN ret : batch[d] = batch[f]

\* C11 as claimed: no make_request task ever ends by raising, whatever fails
\* during the call.  (Stated for a valid concurrent_requests.)
C11_ExecutorNeverRaises ==
    concurrent_requests >= 1 =>
        \A id \in Ids : tstate[id] # "raised"

\* C11 as amended: make_request returns a result that carries the failure for
\* every transport exception and every body that cannot be parsed or decoded;
\* it raises exactly when its append to the log raised, and then returns
\* nothing.
C11_ExecutorRaisesOnlySinkErrors ==
    /\ \A id \in Ids : tstate[id] = "raised" => id \in SinkFailed
    /\ \A id \in DOMAIN outcome :
           IF sink_exception(outcome[id].sink) = "none"
           THEN /\ tstate[id] \in {"appending", "done"}
                /\ tstate[id] = "done" =>
                       /\ id \in DOMAIN ret
                       /\ outcome[id].kind = "exception" =>
                              ErrorPresent(ret[id])
                       /\ (outcome[id].kind = "response"
                              /\ json_raises(outcome[id].body)
                              /\ text_raises(outcome[id].body)) =>
                              ErrorPresent(ret[id])
           ELSE /\ tstate[id] = "raised"
                /\ id \notin DOMAIN ret

\* C11 witness: one request returned a result carrying a transport exception
\* and another one raised because its append failed.
C11_Witness ==
    \E a \in DOMAIN ret, f \in SinkFailed :
        /\ outcome[a].kind = "exception"
        /\ ErrorPresent(ret[a])
        /\ tstate[f] = "raised"

\* C12: once a run has started, through either entry point, the log holds the
\* lines this run appended and none of an earlier run.  (Stated for a valid
\* concurrent_requests.)
C12_LogHoldsOnlyThisRun ==
    (pc # "init" /\ concurrent_requests >= 1) =>
        /\ Len(log) = Cardinality(DOMAIN ret)
        /\ \A k \in 1..Len(log) : \E id \in DOMAIN ret : k \in LinesOf(id)

\* ceil(total_requests / concurrent_requests), for concurrent_requests >= 1.
BatchCount ==
    (total_requests + concurrent_requests - 1) \div concurrent_requests

\* The ids (k-1)*c+1 .. min(k*c, N) of batch k.
BatchIds(k) ==
    LET last == IF k * concurrent_requests < total_requests
                THEN k * concurrent_requests ELSE total_requests
    IN  ((k - 1) * concurrent_requests + 1)..last

\* C13: for concurrent_requests >= 1 the list run() gathers is always the next
\* consecutive ids: exactly concurrent_requests of them at line 141, the
\* remaining 1..concurrent_requests at line 146; and when run() is done batch
\* k is exactly the ids (k-1)*c+1 .. min(k*c, N) for k = 1..ceil(N/c), so no
\* id is in two batches or in none.
C13_BatchesPartitionIds ==
    concurrent_requests >= 1 =>
        /\ pc = "gather" =>
               tasks = [k \in 1..concurrent_requests |->
                           (batchNo - 1) * concurrent_requests + k]
        /\ pc = "gather_rest" =>
               /\ Len(tasks) \in 1..concurrent_requests
               /\ batchNo = BatchCount
               /\ tasks = [k \in 1..Len(tasks) |->
                              (batchNo - 1) * concurrent_requests + k]
               /\ tasks[Len(tasks)] = total_requests
        /\ pc = "done" =>
               /\ DOMAIN batch = 1..total_requests
               /\ \A k \in 1..BatchCount :
                      {id \in DOMAIN batch : batch[id] = k} = BatchIds(k)

\* C13 witness: a run is done whose last batch is smaller than the full
\* batch before it.
C13_Witness ==
    /\ pc = "done"
    /\ concurrent_requests >= 2
    /\ total_requests > concurrent_requests
    /\ total_requests % concurrent_requests # 0

\* The requests whose make_request returns in this step.
Returning(id) == id \notin DOMAIN ret /\ id \in DOMAIN ret'

\* C14: every request whose make_request has returned has its line in the
\* log.  (Stated for a valid concurrent_requests.)
C14_LineWrittenBeforeReturn ==
    concurrent_requests >= 1 =>
        \A id \in DOMAIN ret : LinesOf(id) # {}

\* C15: every line of the log this run has written to is the complete record
\* of one request and ends in a newline.  (Stated for a valid
\* concurrent_requests.)
C15_EveryLineIsACompleteRecord ==
    concurrent_requests >= 1 =>
        \A k \in 1..Len(log) :
            (\E p \in 1..Len(log[k].pieces) :
                 log[k].pieces[p].record.timestamp = Now) =>
                (WholeLine(log[k]) /\ log[k].newline)

\* The step in which request id is the next of the requests in flight to
\* complete: its client.request returns or raises and it reaches its append.
CompletesNext(id) ==
    /\ RequestReturns(id) \/ RequestRaises(id)
    /\ tstate'[id] = "appending"

\* C16: the log is in completion order, not id order.  The record of a
\* request that returns is put after everything the file held before,
\* whatever its id, and no step moves or removes what stands in the file short
\* of emptying it; whichever requests are in flight together, each of them can
\* be the next to complete and to write its line, so the lines of a batch can
\* stand in any order; and whatever a batch wrote stands before whatever a
\* later batch wrote, and after whatever an earlier run wrote.
C16_LogInCompletionOrder ==
    /\ [][\A id \in Ids :
              Returning(id) =>
                  Written' = Append(Written,
                                    piece(log_line(ret'[id]), TRUE))]_vars
    /\ [][log' = <<>> \/ IsPrefix(Written, Written')]_vars
    /\ [](\A id \in Ids :
              /\ (/\ TasksMayRun
                  /\ tstate[id] = "requesting"
                  /\ log_file = "name") => ENABLED CompletesNext(id)
              /\ (/\ tstate[id] = "appending"
                  /\ dumps_raises(dumps_error, pending_result(id)) = "none") =>
                     ENABLED (LeaveAppend(id) /\ Returning(id)))
    /\ [](\A p \in 1..Len(Written), q \in 1..Len(Written) :
              p < q =>
                  /\ Written[q].record.timestamp = Earlier =>
                         Written[p].record.timestamp = Earlier
                  /\ (/\ Written[p].record.timestamp = Now
                      /\ Written[q].record.timestamp = Now) =>
                         batch[Written[p].record.request_id]
                             <= batch[Written[q].record.request_id])

\* C16 witness: after the three lines of an earlier run, the two requests of
\* the first batch have written their lines in the order 2, 1 and the request
\* of the second batch its line after them.
C16_Witness ==
    /\ concurrent_requests = 2
    /\ Len(log) = 6
    /\ LinesOf(2) = {4}
    /\ LinesOf(1) = {5}
    /\ LinesOf(3) = {6}

\* A task has been created for the request (line 136).
Dispatched(id) == tstate[id] # "none"

\* What C17 assumes of the transport: every client.request (line 76) that
\* has been started and can be resumed returns or raises.  (The code does not
\* see to it: the timeout of line 133 bounds each connect, read and write, not
\* the exchange.)
TransportResponds ==
    \A id \in Ids : WF_vars(RequestReturns(id) \/ RequestRaises(id))

\* C17 as claimed: if every transport call returns or raises, every
\* dispatched request eventually returns a result, and run() eventually ends.
\* (Stated for a valid concurrent_requests.)
C17_EveryRequestResolves ==
    TransportResponds =>
        /\ \A id \in Ids :
               (concurrent_requests >= 1 /\ Dispatched(id)) ~>
                   (id \in DOMAIN ret)
        /\ <>(pc \in {"done", "failed"})

\* C17 as amended: if every transport call returns or raises, run()
\* eventually ends and stays ended, either returned with every request
\* completed or raised with the exception of a failed append; every dispatched
\* request eventually returns a result unless an append of the run fails; and
\* no task ends without a result in a run in which no append has failed.
C17_RunEndsAndRequestsResolve ==
    TransportResponds =>
        /\ <>[](\/ /\ pc = "done"
                   /\ \A id \in 1..total_requests : id \in DOMAIN ret
                \/ /\ pc = "failed"
                   /\ exc = failure
                   /\ exc # "none"
                   /\ SinkFailed # {})
        /\ \A id \in Ids :
               Dispatched(id) ~> (id \in DOMAIN ret \/ SinkFailed # {})
        /\ [](\A id \in Ids :
                  tstate[id] \in {"raised", "cancelled", "never_ran"} =>
                      SinkFailed # {})

\* C17 witness: asyncio.run has ended a failed run in which one request
\* raised and its sibling was cancelled in flight, with a request left
\* undispatched.
C17_Witness ==
    /\ loop = "closed"
    /\ pc = "failed"
    /\ i < total_requests
    /\ \E b \in Ids, c \in Ids :
           /\ tstate[b] = "raised"
           /\ tstate[c] = "cancelled"
           /\ batch[b] = batch[c]

\* C18: for every response whose body is not JSON, the returned result has
\* status_code, has no error and holds the text of the body as response_body.
\* (Stated for a valid concurrent_requests.)
C18_NonJsonBodyStoredAsText ==
    concurrent_requests >= 1 =>
        \A id \in DOMAIN ret :
            (outcome[id].kind = "response" /\ json_raises(outcome[id].body)) =>
                /\ StatusPresent(ret[id])
                /\ ~ErrorPresent(ret[id])
                /\ "response_body" \in DOMAIN ret[id]
                /\ ret[id].response_body = response_text(outcome[id].body)

\* C19: once the client has been released, no make_request task of the run
\* is still awaiting it or inside its append.  (Stated for a valid
\* concurrent_requests.)
C19_NothingInFlightAtRelease ==
    (concurrent_requests >= 1 /\ client = "closed") => InFlight = {}

\* --------------------------------------------- what holds of the valid cases

\* For concurrent_requests >= 1 the tasks in flight never outnumber it.
InFlightWithinValidConcurrency ==
    concurrent_requests >= 1 =>
        Cardinality(InFlight) <= concurrent_requests

\* A run started through run_stress_test, which empties the file first, ends
\* with exactly one line per request id.
LogHoldsOneLinePerRequestAfterTruncation ==
    (pc = "done" /\ entry = "run_stress_test") =>
        /\ Len(log) = total_requests
        /\ \A id \in 1..total_requests : Cardinality(LinesOf(id)) = 1

\* A run started through run_stress_test holds, at every moment, what it
\* wrote itself and nothing else: every piece is of this run, the piece of a
\* request that returned or of one whose write failed; and as long as no write
\* has failed the lines are those of the requests that returned.
LogHoldsOnlyThisRunAfterTruncation ==
    entry = "run_stress_test" =>
        /\ \A p \in 1..Len(Written) :
               /\ Written[p].record.timestamp = Now
               /\ Written[p].record.request_id \in SinkFailed \cup DOMAIN ret
        /\ SinkFailed = {} =>
               /\ Len(log) = Cardinality(DOMAIN ret)
               /\ \A k \in 1..Len(log) : \E id \in DOMAIN ret : k \in LinesOf(id)

\* A run of zero requests creates no task and writes nothing: the file holds
\* what it held before the run, or nothing once run_stress_test has emptied
\* it.
ZeroRequestsAppendNothing ==
    total_requests = 0 =>
        /\ \A id \in Ids : tstate[id] = "none"
        /\ log \in PriorLogs
        /\ entry = "run_stress_test" => log = <<>>

\* Every returned result has exactly one of status_code and error.
ExactlyOneOfStatusAndError ==
    \A id \in DOMAIN ret : StatusPresent(ret[id]) # ErrorPresent(ret[id])

\* For every returned result, success is true iff status_code is present and
\* in [200, 300).
SuccessIffStatusIn2xx ==
    \A id \in DOMAIN ret :
        ret[id].success =
            (/\ StatusPresent(ret[id])
             /\ 200 <= ret[id].status_code
             /\ ret[id].status_code < 300)

\* A body that is not JSON and can be decoded is stored as its text in a
\* result that has status_code and no error.
DecodableBodyStoredAsText ==
    \A id \in DOMAIN ret :
        (/\ outcome[id].kind = "response"
         /\ json_raises(outcome[id].body)
         /\ ~text_raises(outcome[id].body)) =>
            /\ StatusPresent(ret[id])
            /\ ~ErrorPresent(ret[id])
            /\ ret[id].response_body = response_text(outcome[id].body)

\* The client is opened once and is closed exactly when run() has ended, by
\* return or by exception; when run() has returned, no task is in flight.
ClientReleasedWhenRunEnds ==
    /\ (client = "none") = (pc = "init")
    /\ (client = "closed") = (pc \in {"closing", "done", "failed"})
    /\ pc = "done" => InFlight = {}

\* Appends do not interleave: at most one task is inside an append at a time,
\* and from the state in which a task has opened the log file the only step
\* that can be taken is that task's own write, which ends the task; no other
\* task changes state and run() does not move in between.
AppendsDoNotInterleave ==
    /\ [](Cardinality(Appending) <= 1)
    /\ [][\A id \in Appending :
              /\ tstate'[id] \in {"done", "raised"}
              /\ \A j \in Ids \ {id} : tstate'[j] = tstate[j]
              /\ UNCHANGED <<pc, loop, client, tasks, i>>]_vars

\* The requests whose write failed with a piece of their line in the file.
PartialWrites ==
    {id \in DOMAIN outcome :
        outcome[id].sink \in {"write_raises_partial",
                              "write_raises_unterminated"}}

\* In a run started through run_stress_test, as long as no write has failed
\* partway, every request whose make_request has returned has its line in the
\* log; the step in which a make_request returns adds exactly the line of its
\* result, and the log changes in no step but the end of an append.
LineWrittenBeforeReturnOnSoundFile ==
    /\ []((entry = "run_stress_test" /\ PartialWrites = {}) =>
              \A id \in DOMAIN ret : LinesOf(id) # {})
    /\ [][\A id \in Ids :
              (/\ entry = "run_stress_test"
               /\ Returning(id)
               /\ PartialWrites = {}) =>
                  log' = Append(log,
                                file_line(<<piece(log_line(ret'[id]), TRUE)>>,
                                          TRUE))]_vars
    /\ [][(entry = "run_stress_test" /\ log' # log) =>
              \E id \in Ids : tstate[id] = "appending"]_vars

=============================================================================
